---- MODULE Spec2Model ----
(***************************************************************************)
(* Model of instagram_forensic_downloader.py: the download / move / hash / *)
(* resume pipeline of InstagramDownloader.download_profile, with its       *)
(* worker pool (download_post_with_retry) running concurrently with the    *)
(* main thread's as_completed loop (process_downloaded_files).             *)
(*                                                                         *)
(* Strings (file names, short codes, URLs) are sequences of tokens, so     *)
(* that split('_'), endswith, stem and with_suffix are computed.           *)
(***************************************************************************)
EXTENDS Integers, Sequences, FiniteSets, TLC

(* ---------------- bounds of the model ---------------- *)
MaxRuns == 2
MaxFaults == 3
MaxProbe == 6

(* ---------------- Config ---------------- *)
MAX_WORKERS == 3
RETRY_ATTEMPTS == 3

(* ---------------- the media source (external) ---------------- *)
ScA == <<"a">>
ScB == <<"b", "_", "c">>

FileA1 == <<"a", "_", "1", ".", "jpg">>
FileA2 == <<"a", "_", "1", ".", "json">>
FileB1 == <<"b", "_", "c", "_", "1", ".", "jpg">>
FileB2 == <<"b", "_", "c", "_", "1", ".", "txt">>

\* the profiles the media source may serve: the posts of each
Profiles == { {}, {ScA}, {ScA, ScB} }

\* a profile with more posts than the pool has threads, one picture each
ScD == <<"d">>
ScE == <<"e">>
ScF == <<"f">>
ScG == <<"g">>

PoolProfiles == { {ScD, ScE, ScF, ScG} }

ShortCodes == UNION (Profiles \cup PoolProfiles)

\* the artifacts download_post writes for a post, in the order it writes them
FilesOf(p) ==
  IF p = ScA THEN <<FileA1, FileA2>>
  ELSE IF p = ScB THEN <<FileB1, FileB2>>
  ELSE << p \o <<"_", "1", ".", "jpg">> >>

AllFiles == UNION { { FilesOf(p)[i] : i \in 1..Len(FilesOf(p)) } : p \in ShortCodes }

\* the post whose download writes file f
Owner(f) == CHOOSE p \in ShortCodes : \E i \in 1..Len(FilesOf(p)) : FilesOf(p)[i] = f

\* the bytes the media source may deliver for a file: media and captions
\* are stable, a metadata document changes between two fetches (counters)
ContentsOf(f) ==
  IF f = FileA2
    THEN { <<"json", <<<<"likes", 5>>>>>>, <<"json", <<<<"likes", 6>>>>>> }
    ELSE IF f = FileB2 THEN { <<"text", <<"hello">>>> }
    ELSE { <<"bytes", f>> }

\* the condition download_post raises when the fetch of a post fails: the
\* first post meets transient network errors, the second demands a login
FetchErrors(p) == IF p = ScA THEN {"transient"} ELSE {"login"}

(* ---------------- strings ---------------- *)
endswith(s, suffix) ==
  /\ Len(s) >= Len(suffix)
  /\ SubSeq(s, Len(s) - Len(suffix) + 1, Len(s)) = suffix

\* index of the last "." that starts a suffix (0 when there is none)
LastDot(name) ==
  LET ds == { i \in 2..Len(name) : name[i] = "." }
  IN IF ds = {} THEN 0 ELSE CHOOSE i \in ds : \A j \in ds : j <= i

\* pathlib: Path.stem
stem(name) == IF LastDot(name) = 0 THEN name ELSE SubSeq(name, 1, LastDot(name) - 1)

\* pathlib: Path.with_suffix
with_suffix(name, suffix) == stem(name) \o suffix

\* str.split('_')[0]
SplitFirst(s) ==
  LET us == { i \in 1..Len(s) : s[i] = "_" }
  IN IF us = {} THEN s
     ELSE SubSeq(s, 1, (CHOOSE i \in us : \A j \in us : i <= j) - 1)

(* ---------------- validate_profile_url ---------------- *)
valid_prefixes == { "http://instagram.com/", "https://instagram.com/",
                    "http://www.instagram.com/", "https://www.instagram.com/" }

\* a URL is <<prefix, segment, ...>>; the inputs tried
Urls == { <<"https://www.instagram.com/", "user", "/">>, <<"ftp://instagram.com/", "user">> }

UrlOk(url) == Len(url) > 0 /\ url[1] \in valid_prefixes

(* ---------------- pure services ---------------- *)
\* calculate_md5: the digest of a content (collision-free on the model's contents)
calculate_md5(content) == <<"md5", content>>

\* a line written without the " *" separator
hash_entry_nosep(md5_hash, relative_path) == <<md5_hash, " ", relative_path>>

\* the manifest line write_hash appends
hash_entry(md5_hash, relative_path) == <<md5_hash, " *", relative_path>>

\* os.path.relpath(posts/<filename>, profile dir)
relpath(filename) == <<"posts", "/">> \o filename

HeaderLine == <<"# MD5 hashes dei file scaricati">>

\* json_to_txt: the text written for a document, "error" when json.load fails
json_to_txt(content) ==
  IF content[1] = "json"
    THEN <<"text", [ i \in 1..Len(content[2]) |->
                       <<content[2][i][1], ": ", content[2][i][2]>> ]>>
    ELSE "error"

\* a scan for another picture extension
get_downloaded_posts_png(dir) ==
  { SplitFirst(stem(f)) : f \in { g \in DOMAIN dir : endswith(g, <<".", "png">>) } }

\* get_downloaded_posts over a directory (a function from file names to contents)
get_downloaded_posts(dir) ==
  { SplitFirst(stem(f)) : f \in { g \in DOMAIN dir : endswith(g, <<".", "jpg">>) } }

\* a ceiling that is off by one
stop_after_attempt_late(n) == n > RETRY_ATTEMPTS

\* tenacity stop_after_attempt(RETRY_ATTEMPTS)
stop_after_attempt(n) == n >= RETRY_ATTEMPTS

\* tenacity wait_exponential(multiplier=1, min=4, max=10): the wait after
\* attempt number n is multiplier * 2^(n-1), clamped to [min, max]
WAIT_MULTIPLIER == 1

WAIT_MIN == 4

WAIT_MAX == 10

Min2(a, b) == IF a <= b THEN a ELSE b

Max2(a, b) == IF a >= b THEN a ELSE b

\* a wait that ignores the minimum
wait_exponential_nomin(n) == Min2(WAIT_MULTIPLIER * 2^(n - 1), WAIT_MAX)

wait_exponential(n) ==
  Max2(Max2(0, WAIT_MIN), Min2(WAIT_MULTIPLIER * 2^(n - 1), WAIT_MAX))

(* ---------------- state ---------------- *)
VARIABLES
  run,         \* number of the current run of download_profile
  pc,          \* position of the main thread in download_profile
  profile,     \* the posts the media source serves for the profile
  logger,      \* self.logger is set (setup_logging has run)
  posts,       \* list(profile.get_posts()) of this run
  posts_dir,   \* <profile>/posts : file name -> content
  temp_exists, \* the staging directory exists
  staging,     \* temp_download_<username> : file name -> content
  manifest,    \* hash.txt : sequence of lines
  log,         \* the lines logged in this run
  fut,         \* state of each post's future
  idx,         \* number of files the running attempt of a post has written
  attempts,    \* attempts made for each post in this run
  delays,      \* the waits tenacity slept between the attempts of each post
  yielded,     \* futures as_completed has yielded
  listing,     \* files of os.listdir(temp_path) not yet handled in this pass
  hash_lock,   \* holder of self.hash_lock
  cur,         \* the line write_hash is about to append
  faults       \* failures injected so far

vars == << run, pc, profile, logger, posts, posts_dir, temp_exists, staging,
           manifest, log, fut, idx, attempts, delays, yielded, listing,
           hash_lock, cur, faults >>

Empty == [ f \in {} |-> <<>> ]

NoLine == <<>>

Entry(level, msg, about, cause) ==
  [ level |-> level, msg |-> msg, about |-> about, cause |-> cause ]

\* log_and_print
log_and_print(l, level, msg, about, cause) == l \cup { Entry(level, msg, about, cause) }

Remove(dir, f) == [ g \in DOMAIN dir \ {f} |-> dir[g] ]

Put(dir, f, c) == [ g \in DOMAIN dir \cup {f} |-> IF g = f THEN c ELSE dir[g] ]

Init ==
  /\ run = 1
  /\ pc = "start"
  /\ profile \in Profiles
  /\ logger = FALSE
  /\ posts = {}
  /\ posts_dir = Empty
  /\ temp_exists = FALSE
  /\ staging = Empty
  /\ manifest = <<>>
  /\ log = {}
  /\ fut = [ p \in ShortCodes |-> "none" ]
  /\ idx = [ p \in ShortCodes |-> 0 ]
  /\ attempts = [ p \in ShortCodes |-> 0 ]
  /\ delays = [ p \in ShortCodes |-> <<>> ]
  /\ yielded = {}
  /\ listing = {}
  /\ hash_lock = "free"
  /\ cur = NoLine
  /\ faults = 0

(* ---------------- download_profile: the main thread ---------------- *)
Running == { p \in ShortCodes : fut[p] = "running" }

\* reset of the state that lives in one process
FreshRun ==
  /\ logger' = FALSE
  /\ posts' = {}
  /\ fut' = [ p \in ShortCodes |-> "none" ]
  /\ idx' = [ p \in ShortCodes |-> 0 ]
  /\ attempts' = [ p \in ShortCodes |-> 0 ]
  /\ delays' = [ p \in ShortCodes |-> <<>> ]
  /\ yielded' = {}
  /\ listing' = {}

\* validate_profile_url raises before setup_logging: the handler's
\* log_and_print finds self.logger None and the error leaves download_profile
StartInvalid(url) ==
  /\ pc = "start"
  /\ ~UrlOk(url)
  /\ pc' = "crashed"
  /\ UNCHANGED << run, profile, logger, posts, posts_dir, temp_exists, staging,
                  manifest, log, fut, idx, attempts, delays, yielded, listing,
                  hash_lock, cur, faults >>

\* hash.txt opened for append: the header is added to what is there
StartRunAppend(url) ==
  /\ pc = "start"
  /\ UrlOk(url)
  /\ logger' = TRUE
  /\ manifest' = Append(manifest, HeaderLine)
  /\ log' = log_and_print({}, "INFO", "profile", "user", "none")
  /\ pc' = "lookup"
  /\ UNCHANGED << run, profile, posts, posts_dir, temp_exists, staging, fut,
                  idx, attempts, delays, yielded, listing, hash_lock, cur, faults >>

\* validate, mkdir, setup_logging, truncate hash.txt and write its header
StartRun(url) ==
  /\ pc = "start"
  /\ UrlOk(url)
  /\ logger' = TRUE
  /\ manifest' = <<HeaderLine>>
  /\ log' = log_and_print({}, "INFO", "profile", "user", "none")
  /\ pc' = "lookup"
  /\ UNCHANGED << run, profile, posts, posts_dir, temp_exists, staging, fut,
                  idx, attempts, delays, yielded, listing, hash_lock, cur, faults >>

\* the handlers of download_profile
ProfileNotExistsHandler(l) == log_and_print(l, "ERROR", "profile_not_exists", "user", "notfound")

ExceptionHandler(l, cause) ==
  log_and_print(log_and_print(l, "ERROR", "run_error", "user", cause),
                "ERROR", "traceback", "user", cause)

\* instaloader.Profile.from_username
Lookup(outcome) ==
  /\ pc = "lookup"
  /\ \/ /\ outcome = "ok"
        /\ pc' = "list"
        /\ log' = log
     \/ /\ outcome = "notfound"
        /\ pc' = "aborted"
        /\ log' = ProfileNotExistsHandler(log)
     \/ /\ outcome = "login"
        /\ pc' = "aborted"
        /\ log' = ExceptionHandler(log, outcome)
  /\ UNCHANGED << run, profile, logger, posts, posts_dir, temp_exists, staging,
                  manifest, fut, idx, attempts, delays, yielded, listing, hash_lock,
                  cur, faults >>

\* get_posts raises
ListFails(cause) ==
  /\ pc = "list"
  /\ pc' = "aborted"
  /\ log' = ExceptionHandler(log, cause)
  /\ UNCHANGED << run, profile, logger, posts, posts_dir, temp_exists, staging,
                  manifest, fut, idx, attempts, delays, yielded, listing, hash_lock,
                  cur, faults >>

\* get_downloaded_posts, list(profile.get_posts()), the staging directory,
\* and the submit loop with its skip of the posts of the resume set
ListPosts ==
  /\ pc = "list"
  /\ LET downloaded_posts == get_downloaded_posts(posts_dir)
     IN /\ posts' = profile
        /\ fut' = [ p \in ShortCodes |->
                      IF p \notin profile THEN "none"
                      ELSE IF p \in downloaded_posts THEN "skipped" ELSE "queued" ]
        /\ log' = log \cup { Entry("INFO", "skip", p, "none") :
                               p \in profile \cap downloaded_posts }
  /\ temp_exists' = TRUE
  /\ pc' = "collect"
  /\ UNCHANGED << run, profile, logger, posts_dir, staging, manifest, idx,
                  attempts, delays, yielded, listing, hash_lock, cur, faults >>

(* ---------------- download_post_with_retry: the workers ---------------- *)
\* a thread is started for every submitted call
WorkerStartUnbounded(p) ==
  /\ fut[p] = "queued"
  /\ fut' = [fut EXCEPT ![p] = "running"]
  /\ attempts' = [attempts EXCEPT ![p] = 1]
  /\ delays' = [delays EXCEPT ![p] = <<>>]
  /\ idx' = [idx EXCEPT ![p] = 0]
  /\ UNCHANGED << run, pc, profile, logger, posts, posts_dir, temp_exists,
                  staging, manifest, log, yielded, listing, hash_lock, cur,
                  faults >>

\* a pool thread takes a submitted call
WorkerStart(p) ==
  /\ fut[p] = "queued"
  /\ Cardinality(Running) < MAX_WORKERS
  /\ fut' = [fut EXCEPT ![p] = "running"]
  /\ attempts' = [attempts EXCEPT ![p] = 1]
  /\ delays' = [delays EXCEPT ![p] = <<>>]
  /\ idx' = [idx EXCEPT ![p] = 0]
  /\ UNCHANGED << run, pc, profile, logger, posts, posts_dir, temp_exists,
                  staging, manifest, log, yielded, listing, hash_lock, cur,
                  faults >>

\* L.download_post writes the post's next artifact into staging
WorkerWrite(p, c) ==
  /\ fut[p] = "running"
  /\ idx[p] < Len(FilesOf(p))
  /\ c \in ContentsOf(FilesOf(p)[idx[p] + 1])
  /\ staging' = Put(staging, FilesOf(p)[idx[p] + 1], c)
  /\ idx' = [idx EXCEPT ![p] = @ + 1]
  /\ UNCHANGED << run, pc, profile, logger, posts, posts_dir, temp_exists,
                  manifest, log, fut, attempts, delays, yielded, listing, hash_lock,
                  cur, faults >>

\* L.download_post returns, then the rate-limit sleep
WorkerSucceed(p) ==
  /\ fut[p] = "running"
  /\ idx[p] = Len(FilesOf(p))
  /\ fut' = [fut EXCEPT ![p] = "ok"]
  /\ UNCHANGED << run, pc, profile, logger, posts, posts_dir, temp_exists,
                  staging, manifest, log, idx, attempts, delays, yielded, listing,
                  hash_lock, cur, faults >>

\* L.download_post raises: warning, then tenacity retries or gives up
WorkerFail(p, cause) ==
  /\ fut[p] = "running"
  /\ faults < MaxFaults
  /\ faults' = faults + 1
  /\ log' = log_and_print(log, "WARNING", "retry", p, cause)
  /\ IF stop_after_attempt(attempts[p])
       THEN /\ fut' = [fut EXCEPT ![p] = "err"]
            /\ UNCHANGED << attempts, delays, idx >>
       ELSE /\ attempts' = [attempts EXCEPT ![p] = @ + 1]
            /\ delays' = [delays EXCEPT ![p] = Append(@, wait_exponential(attempts[p]))]
            /\ idx' = [idx EXCEPT ![p] = 0]
            /\ fut' = fut
  /\ UNCHANGED << run, pc, profile, logger, posts, posts_dir, temp_exists,
                  staging, manifest, yielded, listing, hash_lock, cur >>

(* ---------------- the as_completed loop ---------------- *)
Submitted == { p \in ShortCodes : fut[p] \in {"queued", "running", "ok", "err"} }

\* as_completed yields a finished future; future.result(); os.listdir(temp_path)
Collect(p) ==
  /\ pc = "collect"
  /\ fut[p] \in {"ok", "err"}
  /\ p \notin yielded
  /\ yielded' = yielded \cup {p}
  /\ log' = IF fut[p] = "err"
              THEN log_and_print(log, "ERROR", "download", "RetryError", "none")
              ELSE log
  /\ listing' = DOMAIN staging
  /\ pc' = "process"
  /\ UNCHANGED << run, profile, logger, posts, posts_dir, temp_exists, staging,
                  manifest, fut, idx, attempts, delays, hash_lock, cur, faults >>

(* ---------------- process_downloaded_files ---------------- *)
\* a failed move that ends the pass instead of going on with the next file
MoveFailedAbort(filename) ==
  /\ log' = log_and_print(log, "ERROR", "move", filename, "none")
  /\ listing' = {}
  /\ pc' = "process"
  /\ UNCHANGED << posts_dir, staging, hash_lock, cur >>

\* shutil.move raises: the except branch logs and the loop goes on
MoveFailed(filename) ==
  /\ log' = log_and_print(log, "ERROR", "move", filename, "none")
  /\ listing' = listing \ {filename}
  /\ pc' = "process"
  /\ UNCHANGED << posts_dir, staging, hash_lock, cur >>

\* write_hash: calculate_md5 raises, the error is logged, False is returned
HashFailed(filename, l) ==
  /\ log' = log_and_print(l, "ERROR", "md5", filename, "none")
  /\ pc' = "process"
  /\ UNCHANGED << hash_lock, cur >>

\* write_hash: the digest and the line are computed, hash_lock is taken
HashBegin(filename, content, l) ==
  /\ cur' = hash_entry(calculate_md5(content), relpath(filename))
  /\ hash_lock' = "main"
  /\ log' = l
  /\ pc' = "append"

\* every moved file is hashed, whatever its extension
DispatchHashAll(filename, content, hashOk, l, dir) ==
  /\ posts_dir' = dir
  /\ IF hashOk THEN HashBegin(filename, content, l)
               ELSE HashFailed(filename, l)

\* the branch taken for a moved file
Dispatch(filename, content, hashOk, l, dir) ==
  IF ~endswith(filename, <<".", "txt">>)
    THEN /\ posts_dir' = dir
         /\ IF hashOk THEN HashBegin(filename, content, l)
                      ELSE HashFailed(filename, l)
    ELSE IF endswith(filename, <<".", "json">>)
      THEN /\ posts_dir' =
                IF json_to_txt(content) = "error" THEN dir
                ELSE Put(dir, with_suffix(filename, <<".", "txt">>), json_to_txt(content))
           /\ log' = IF json_to_txt(content) = "error"
                       THEN log_and_print(l, "ERROR", "convert", filename, "none")
                       ELSE log_and_print(l, "INFO", "converted", filename, "none")
           /\ pc' = "process"
           /\ UNCHANGED << hash_lock, cur >>
      ELSE /\ posts_dir' = dir
           /\ log' = l
           /\ pc' = "process"
           /\ UNCHANGED << hash_lock, cur >>

\* shutil.move succeeds, then the file is hashed or transcoded
Moved(filename, hashOk) ==
  /\ staging' = Remove(staging, filename)
  /\ listing' = listing \ {filename}
  /\ Dispatch(filename, staging[filename], hashOk,
              log_and_print(log, "INFO", "moved", filename, "none"),
              Put(posts_dir, filename, staging[filename]))

\* one iteration of the loop over os.listdir(temp_path)
ProcessFile(filename, moveOk, hashOk) ==
  /\ pc = "process"
  /\ filename \in listing
  /\ IF moveOk /\ hashOk THEN faults' = faults
       ELSE faults < MaxFaults /\ faults' = faults + 1
  /\ ~hashOk => moveOk /\ ~endswith(filename, <<".", "txt">>)
  /\ IF moveOk THEN Moved(filename, hashOk) ELSE MoveFailed(filename)
  /\ UNCHANGED << run, profile, logger, posts, temp_exists, manifest, fut, idx,
                  attempts, delays, yielded >>

\* hash.txt rewritten by every write_hash
AppendHashOverwrite ==
  /\ pc = "append"
  /\ hash_lock = "main"
  /\ manifest' = <<HeaderLine, cur>>
  /\ hash_lock' = "free"
  /\ cur' = NoLine
  /\ log' = log_and_print(log, "INFO", "hashed", cur[3], "none")
  /\ pc' = "process"
  /\ UNCHANGED << run, profile, logger, posts, posts_dir, temp_exists, staging,
                  fut, idx, attempts, delays, yielded, listing, faults >>

\* write_hash: the append under hash_lock, then the info line
AppendHash ==
  /\ pc = "append"
  /\ hash_lock = "main"
  /\ manifest' = Append(manifest, cur)
  /\ hash_lock' = "free"
  /\ cur' = NoLine
  /\ log' = log_and_print(log, "INFO", "hashed", cur[3], "none")
  /\ pc' = "process"
  /\ UNCHANGED << run, profile, logger, posts, posts_dir, temp_exists, staging,
                  fut, idx, attempts, delays, yielded, listing, faults >>

\* the loop over the listing is exhausted
EndPass ==
  /\ pc = "process"
  /\ listing = {}
  /\ pc' = "collect"
  /\ UNCHANGED << run, profile, logger, posts, posts_dir, temp_exists, staging,
                  manifest, log, fut, idx, attempts, delays, yielded, listing,
                  hash_lock, cur, faults >>

\* the staging directory removed without waiting for the futures
FinishEarly ==
  /\ pc = "collect"
  /\ temp_exists' = FALSE
  /\ staging' = Empty
  /\ log' = log_and_print(log, "INFO", "completed", "user", "none")
  /\ pc' = "done"
  /\ UNCHANGED << run, profile, logger, posts, posts_dir, manifest, fut, idx,
                  attempts, delays, yielded, listing, hash_lock, cur, faults >>

\* every future was yielded: the executor and temporary_directory exit
\* (shutil.rmtree), the completion lines are logged
Finish ==
  /\ pc = "collect"
  /\ Submitted \subseteq yielded
  /\ temp_exists' = FALSE
  /\ staging' = Empty
  /\ log' = log_and_print(log_and_print(log_and_print(log,
               "INFO", "completed", "user", "none"),
               "INFO", "saved_in", "posts", "none"),
               "INFO", "hashes_in", "hash.txt", "none")
  /\ pc' = "done"
  /\ UNCHANGED << run, profile, logger, posts, posts_dir, manifest, fut, idx,
                  attempts, delays, yielded, listing, hash_lock, cur, faults >>

\* the program is started again on the same profile directory; the profile
\* still serves its posts, or they were all deleted in the meantime
NextRun ==
  /\ pc \in {"done", "aborted", "crashed"}
  /\ run < MaxRuns
  /\ run' = run + 1
  /\ pc' = "start"
  /\ log' = {}
  /\ profile' \in {profile, {}}
  /\ FreshRun
  /\ UNCHANGED << posts_dir, temp_exists, staging, manifest, hash_lock, cur,
                  faults >>

Next ==
  \/ \E url \in Urls : StartInvalid(url)
  \/ \E url \in Urls : StartRun(url)
  \/ \E outcome \in {"ok", "notfound", "login"} : Lookup(outcome)
  \/ ListFails("login")
  \/ ListPosts
  \/ \E p \in ShortCodes : WorkerStart(p)
  \/ \E p \in ShortCodes : \E c \in UNION { ContentsOf(f) : f \in AllFiles } :
       WorkerWrite(p, c)
  \/ \E p \in ShortCodes : WorkerSucceed(p)
  \/ \E p \in ShortCodes : \E cause \in FetchErrors(p) : WorkerFail(p, cause)
  \/ \E p \in ShortCodes : Collect(p)
  \/ \E filename \in AllFiles : \E moveOk \in BOOLEAN : \E hashOk \in BOOLEAN :
       ProcessFile(filename, moveOk, hashOk)
  \/ AppendHash
  \/ EndPass
  \/ Finish
  \/ NextRun

Spec == Init /\ [][Next]_vars

\* the same program on a profile with more posts than pool threads, for
\* the last two runs and with one failure left to happen
InitPool ==
  /\ run = MaxRuns - 1
  /\ pc = "start"
  /\ profile \in PoolProfiles
  /\ logger = FALSE
  /\ posts = {}
  /\ posts_dir = Empty
  /\ temp_exists = FALSE
  /\ staging = Empty
  /\ manifest = <<>>
  /\ log = {}
  /\ fut = [ p \in ShortCodes |-> "none" ]
  /\ idx = [ p \in ShortCodes |-> 0 ]
  /\ attempts = [ p \in ShortCodes |-> 0 ]
  /\ delays = [ p \in ShortCodes |-> <<>> ]
  /\ yielded = {}
  /\ listing = {}
  /\ hash_lock = "free"
  /\ cur = NoLine
  /\ faults = MaxFaults - 1

SpecPool == InitPool /\ [][Next]_vars

(* ---------------- vocabulary of the properties ---------------- *)
Txt == <<".", "txt">>

Json == <<".", "json">>

\* the indices of the manifest's entries (line 1 is the header)
Entries == 2..Len(manifest)

\* the file name a manifest line refers to
FileOfLine(line) == SubSeq(line[3], 3, Len(line[3]))

Logged(level, msg, about) ==
  \E e \in log : e.level = level /\ e.msg = msg /\ e.about = about

Finished(p) == fut[p] \in {"ok", "err"}

(* ---------------- C1 ---------------- *)
\* C1: when a run completes (here: with no failure at all in any run so far),
\* every binary (non-.txt) artifact present in the posts directory has an
\* entry in the manifest, also in a run that skips posts captured earlier.
C1_ManifestCoversArtifacts ==
  (pc = "done" /\ faults = 0) =>
    \A f \in DOMAIN posts_dir :
      ~endswith(f, Txt) => \E i \in Entries : manifest[i][3] = relpath(f)

(* ---------------- C2 ---------------- *)
\* C2: the manifest never contains two entries for the same relative path.
C2_NoDuplicateEntries ==
  \A i \in Entries : \A j \in Entries : i # j => manifest[i][3] # manifest[j][3]

(* ---------------- C3 ---------------- *)
\* C3: in a run on a profile whose posts were all fully captured by a prior
\* run, at the end of the submit loop (before any future is handled) every
\* post is skipped and no download was started for it.
C3_ResumeSkipsAll ==
  ( /\ run > 1
    /\ pc = "collect"
    /\ yielded = {}
    /\ \A p \in posts : \A i \in 1..Len(FilesOf(p)) : FilesOf(p)[i] \in DOMAIN posts_dir )
  => \A p \in posts : fut[p] = "skipped" /\ attempts[p] = 0

(* ---------------- C4 ---------------- *)
\* C4: no post is attempted more than RETRY_ATTEMPTS times; an abandoned post
\* was attempted exactly RETRY_ATTEMPTS times and its failure is logged (a
\* warning naming the post, and an error once its future is handled); a
\* completed run has fetched and handled every non-skipped post.
C4_RetryCeiling ==
  /\ \A p \in ShortCodes : attempts[p] <= RETRY_ATTEMPTS
  /\ \A p \in ShortCodes :
       fut[p] = "err" => /\ attempts[p] = RETRY_ATTEMPTS
                         /\ \E e \in log : e.level = "WARNING" /\ e.about = p
  /\ \A p \in yielded :
       fut[p] = "err" => Logged("ERROR", "download", "RetryError")
  /\ pc = "done" =>
       \A p \in posts :
         fut[p] # "skipped" => Finished(p) /\ p \in yielded /\ attempts[p] >= 1

\* a run completed in which one post was abandoned and another was fetched,
\* moved and hashed
C4_Witness ==
  /\ pc = "done"
  /\ fut[ScA] = "err"
  /\ fut[ScB] = "ok"
  /\ \E i \in Entries : manifest[i][3] = relpath(FileB1)

(* ---------------- C5 ---------------- *)
\* C5: no artifact of a post is moved and hashed before that post's fetch has
\* finished: while write_hash holds a moved file's line, the fetch of the
\* post that owns the file has succeeded or exhausted its retries.
C5_FetchBeforeHash ==
  pc = "append" => Finished(Owner(FileOfLine(cur)))

(* ---------------- C6 ---------------- *)
\* C6: every manifest entry's digest is the digest of the content the
\* artifact has on disk in the posts directory.
C6_DigestOfFinalContent ==
  \A i \in Entries :
    /\ FileOfLine(manifest[i]) \in DOMAIN posts_dir
    /\ manifest[i][1] = calculate_md5(posts_dir[FileOfLine(manifest[i])])

(* ---------------- C7 ---------------- *)
\* C7: between two passes of process_downloaded_files, every .json document
\* in the posts directory has its .txt transcription next to it.
C7_JsonTranscribed ==
  pc \in {"collect", "done"} =>
    \A f \in DOMAIN posts_dir :
      endswith(f, Json) => with_suffix(f, Txt) \in DOMAIN posts_dir

(* ---------------- C8 ---------------- *)
\* C8: once the media source has signalled profile-not-found or
\* login-required in a run, the run is aborted.
C8_FatalAborts ==
  (\E e \in log : e.cause \in {"login", "notfound"}) => pc = "aborted"

(* ---------------- C9 ---------------- *)
\* C9: a pass handles the files of its listing one at a time and ends only
\* when the listing is exhausted; a failed move (the file is still in
\* staging) and a failed hash (a moved binary file with no append started)
\* are logged as errors; nothing in the loop aborts the run, which completes
\* only after every submitted post was handled.
C9_FileFailuresNonFatal ==
  [][ /\ pc \in {"collect", "process", "append"} =>
           pc' \in {"collect", "process", "append", "done"}
      /\ pc' = "done" => Submitted \subseteq yielded
      /\ pc = "process" =>
           /\ pc' = "collect" => listing = {}
           /\ \A f \in listing \ listing' :
                /\ listing' = listing \ {f}
                /\ f \in DOMAIN staging' => Logged("ERROR", "move", f)'
                /\ (f \notin DOMAIN staging' /\ ~endswith(f, Txt) /\ pc' = "process")
                      => Logged("ERROR", "md5", f)' ]_vars

\* a move failed in the current pass and the pass goes on with other files
C9_Witness ==
  /\ pc = "process"
  /\ listing # {}
  /\ \E f \in DOMAIN staging : f \notin listing /\ Logged("ERROR", "move", f)
  /\ \E g \in DOMAIN posts_dir : Logged("ERROR", "md5", g)

(* ---------------- C10 ---------------- *)
\* C10: hash_lock is held exactly while the main thread is in its append (no
\* other thread appends), the manifest starts with the header and every
\* later line is one complete "<digest> *<relative-path>" line of a file.
C10_ManifestWellFormed ==
  /\ (hash_lock = "main") = (pc = "append")
  /\ hash_lock \in {"free", "main"}
  /\ (pc = "append") = (cur # NoLine)
  /\ Len(manifest) >= 1 => manifest[1] = HeaderLine
  /\ \A i \in Entries :
       /\ Len(manifest[i]) = 3
       /\ manifest[i][2] = " *"
       /\ \E f \in AllFiles : \E c \in ContentsOf(f) :
            manifest[i] = <<calculate_md5(c), " *", relpath(f)>>

\* an append is in progress after two entries were already written
C10_Witness ==
  /\ pc = "append"
  /\ Len(manifest) >= 3

(* ---------------- C11 ---------------- *)
\* C11: at every moment at most MAX_WORKERS calls of
\* download_post_with_retry are active (fetching, or waiting to retry),
\* however many posts were submitted.
C11_PoolBound ==
  Cardinality(Running) <= MAX_WORKERS

\* the pool is full while a submitted post still waits for a thread
C11_Witness ==
  /\ Cardinality(Running) = MAX_WORKERS
  /\ \E p \in posts : fut[p] = "queued"

(* ---------------- C12 ---------------- *)
\* C12: download_profile never lets a failure escape, and a run that was
\* ended by a failure has recorded it as an error in its log.
C12_FailuresLoggedNoRaise ==
  /\ pc # "crashed"
  /\ pc = "aborted" => \E e \in log : e.level = "ERROR"

(* ---------------- C13 ---------------- *)
\* C13: a run that has ended (here: one that ran to completion) has logged
\* a summary line that reports the posts processed and the hashes written.
C13_FinalSummary ==
  pc = "done" => \E e \in log : e.msg = "summary"

(* ---------------- C14 ---------------- *)
\* C14: after a run on a profile with zero posts the manifest holds the
\* header line and nothing else.
C14_EmptyProfileHeaderOnly ==
  (pc = "done" /\ posts = {}) => manifest = <<HeaderLine>>

\* a run on a profile without posts completed in a directory that holds the
\* artifacts of an earlier run
C14_Witness ==
  /\ pc = "done"
  /\ posts = {}
  /\ run > 1
  /\ \E f \in DOMAIN posts_dir : ~endswith(f, Txt)

(* ---------------- C15 ---------------- *)
\* C15: when a pass of process_downloaded_files has handled every file of
\* its listing, the staging directory is empty.
C15_StagingEmptyAfterPass ==
  (pc = "process" /\ listing = {}) => staging = Empty

(* ---------------- C16 ---------------- *)
\* C16: a run that passes URL validation resets the manifest to the header
\* line in its first step, before the lookup and before any fetch; every
\* other step leaves the manifest alone or appends one line to it (only
\* write_hash does); a completed run's manifest is the header followed by
\* lines this run logged as hashed.
C16_ManifestResetOnce ==
  [][ /\ pc = "start" =>
           IF pc' = "lookup" THEN manifest' = <<HeaderLine>>
                             ELSE manifest' = manifest
      /\ pc' = "lookup" => \A p \in ShortCodes : fut'[p] = "none"
      /\ pc # "start" =>
           \/ manifest' = manifest
           \/ /\ pc = "append"
              /\ Len(manifest') = Len(manifest) + 1
              /\ SubSeq(manifest', 1, Len(manifest)) = manifest
      /\ pc' = "done" =>
           /\ manifest'[1] = HeaderLine
           /\ \A i \in 2..Len(manifest') :
                \E e \in log' : /\ e.level = "INFO"
                                /\ e.msg = "hashed"
                                /\ e.about = manifest'[i][3] ]_vars

\* a later run completed with entries of its own while an artifact of an
\* earlier run is on disk without an entry
C16_Witness ==
  /\ pc = "done"
  /\ run > 1
  /\ Len(manifest) >= 2
  /\ \E f \in DOMAIN posts_dir :
       ~endswith(f, Txt) /\ \A i \in Entries : manifest[i][3] # relpath(f)

(* ---------------- C17 ---------------- *)
\* C17: no manifest line, and no line about to be appended, refers to a
\* .txt path, and no hash or conversion was attempted on a .txt file.
C17_TxtSkipped ==
  /\ \A i \in Entries : ~endswith(manifest[i][3], Txt)
  /\ pc = "append" => ~endswith(cur[3], Txt)
  /\ \A e \in log :
       e.msg \in {"hashed", "md5", "converted", "convert"} => ~endswith(e.about, Txt)

\* a .txt file was moved in a run that hashed other files and completed
C17_Witness ==
  /\ pc = "done"
  /\ Logged("INFO", "moved", FileB2)
  /\ FileB2 \in DOMAIN posts_dir
  /\ Len(manifest) >= 2

(* ---------------- C18 ---------------- *)
\* the law of the waits, probed for the attempt numbers 1..MaxProbe
WaitLaw ==
  \A n \in 1..MaxProbe :
    /\ wait_exponential(n) <= wait_exponential(n + 1)
    /\ wait_exponential(n) >= 4 /\ wait_exponential(n) <= 10
    /\ (2^(n - 1) >= 4 /\ 2^(n - 1) <= 10) => wait_exponential(n) = 2^(n - 1)

\* C18: the waits slept between the attempts of a post are one per retry,
\* non-decreasing and between 4 and 10; the wait after attempt n is
\* 2^(n-1) whenever that value lies between 4 and 10.
C18_BackoffMonotone ==
  /\ \A p \in ShortCodes :
       /\ Len(delays[p]) = (IF attempts[p] = 0 THEN 0 ELSE attempts[p] - 1)
       /\ \A k \in 1..Len(delays[p]) : delays[p][k] >= 4 /\ delays[p][k] <= 10
       /\ \A k \in 1..(Len(delays[p]) - 1) : delays[p][k] <= delays[p][k + 1]
  /\ WaitLaw

\* a post was retried twice
C18_Witness ==
  \E p \in ShortCodes : attempts[p] = RETRY_ATTEMPTS /\ Len(delays[p]) = 2

(* ---------------- C19 ---------------- *)
JpgOf(p, dir) ==
  { f \in DOMAIN dir : endswith(f, <<".", "jpg">>) /\ SplitFirst(stem(f)) = p }

\* C19: the pass run for a future, failed or not, takes every staged file,
\* and a file it takes out of staging is in the posts directory and, unless
\* it is a .txt file, is handed to write_hash (an entry is about to be
\* appended for it or its digest failed and the error was logged); a post
\* with a .jpg in the posts directory whose prefix is its short code is
\* skipped by the submit loop; a skipped post is never attempted and its
\* artifacts in the posts directory stay as they are for the whole run.
C19_AbandonedThenSkipped ==
  [][ /\ (pc = "collect" /\ pc' = "process") => listing' = DOMAIN staging
      /\ pc = "process" =>
           \A f \in DOMAIN staging :
             f \notin DOMAIN staging' =>
               /\ f \in DOMAIN posts_dir'
               /\ ~endswith(f, Txt) =>
                    \/ pc' = "append" /\ cur'[3] = relpath(f)
                    \/ \E e \in log' :
                         e.level = "ERROR" /\ e.msg = "md5" /\ e.about = f
      /\ (pc = "list" /\ pc' = "collect") =>
           \A p \in profile : JpgOf(p, posts_dir) # {} => fut'[p] = "skipped"
      /\ \A p \in ShortCodes :
           fut[p] = "skipped" =>
             /\ fut'[p] \in {"skipped", "none"}
             /\ attempts'[p] = 0
             /\ \A i \in 1..Len(FilesOf(p)) :
                  (FilesOf(p)[i] \in DOMAIN posts_dir) = (FilesOf(p)[i] \in DOMAIN posts_dir') ]_vars

\* after enough failures to abandon a post, a later run skipped the post
\* and completed with the post's picture on disk and its document missing
C19_Witness ==
  /\ pc = "done"
  /\ run > 1
  /\ faults >= RETRY_ATTEMPTS
  /\ fut[ScA] = "skipped"
  /\ FileA1 \in DOMAIN posts_dir
  /\ FileA2 \notin DOMAIN posts_dir

(* ---------------- C20 ---------------- *)
RunEnded == pc \in {"done", "aborted", "crashed"}

\* an upper bound of the steps a post's future can still take
WorkRank(p) ==
  IF fut[p] = "queued" THEN 1 + RETRY_ATTEMPTS * (Len(FilesOf(p)) + 2)
  ELSE IF fut[p] = "running"
    THEN (RETRY_ATTEMPTS - attempts[p]) * (Len(FilesOf(p)) + 2)
           + (Len(FilesOf(p)) - idx[p]) + 1
    ELSE 0

\* the sum over the short codes of the model
SumWorkRank ==
  WorkRank(ScA) + WorkRank(ScB) + WorkRank(ScD) + WorkRank(ScE)
    + WorkRank(ScF) + WorkRank(ScG)

\* the steps of one pass: a collect, two per file, the end of the pass
PassCost == 2 * Cardinality(AllFiles) + 2

\* an upper bound of the steps of one run after its submit loop
RunMax ==
  Cardinality(ShortCodes) * PassCost + 1
    + Cardinality(ShortCodes) * (1 + RETRY_ATTEMPTS * (Cardinality(AllFiles) + 2))

\* an upper bound of the steps the main thread can still take in this run
MainRank ==
  LET rest == Cardinality(Submitted \ yielded) * PassCost + 1
  IN CASE pc = "start" -> RunMax + 3
       [] pc = "lookup" -> RunMax + 2
       [] pc = "list" -> RunMax + 1
       [] pc = "collect" -> rest
       [] pc = "process" -> 2 * Cardinality(listing) + 1 + rest
       [] pc = "append" -> 2 * Cardinality(listing) + 2 + rest
       [] OTHER -> 0

\* an upper bound of the steps left before the last run has ended
Rank == (MaxRuns - run) * (RunMax + 4) + MainRank + SumWorkRank

\* some step of the program is possible: the guards of the actions
CanStep ==
  \/ pc \in {"start", "lookup", "list"}
  \/ \E p \in ShortCodes : fut[p] = "queued" /\ Cardinality(Running) < MAX_WORKERS
  \/ \E p \in ShortCodes : fut[p] = "running" /\ idx[p] <= Len(FilesOf(p))
  \/ pc = "collect" /\ \E p \in ShortCodes : Finished(p) /\ p \notin yielded
  \/ pc = "collect" /\ Submitted \subseteq yielded
  \/ pc = "process" /\ (listing = {} \/ \E f \in listing : f \in DOMAIN staging)
  \/ pc = "append" /\ hash_lock = "main"
  \/ RunEnded /\ run < MaxRuns

\* C20: every run ends: a run that has not ended can always take a step and
\* every step lowers a bound of the steps left; when a run has ended the
\* staging directory is gone and every post of the run is skipped or was
\* handled after its fetch succeeded or failed within 3 attempts; the files
\* the final removal of staging deletes are files whose move failed.
C20_RunEnds ==
  /\ [](RunEnded \/ CanStep)
  /\ [][ /\ Rank' < Rank
         /\ Rank' >= 0
         /\ RunEnded' =>
              /\ ~temp_exists'
              /\ staging' = Empty
              /\ \A p \in posts' :
                   \/ fut'[p] = "skipped"
                   \/ Finished(p)' /\ p \in yielded' /\ attempts'[p] <= 3
         /\ (pc = "collect" /\ pc' = "done") =>
              \A f \in DOMAIN staging : Logged("ERROR", "move", f) ]_vars

\* a run with an abandoned post ended after every staged file was moved
C20_Witness ==
  /\ pc = "done"
  /\ \E p \in posts : fut[p] = "err"
  /\ \E p \in posts : fut[p] = "ok" /\ \A i \in 1..Len(FilesOf(p)) : FilesOf(p)[i] \in DOMAIN posts_dir
  /\ \A e \in log : e.msg # "move"

====
